---- MODULE Spec2Model ----
(***************************************************************************)
(* RWMS (RimWorld Mod Sorter): one run of rwms_sort.py's main() as a state *)
(* machine.  The run reads ModsConfig.xml, scans the workshop and local    *)
(* mod directories, scores every mod against the downloaded database,      *)
(* sorts the active mods, writes the unknown-mod report and rewrites       *)
(* ModsConfig.xml after a backup.                                          *)
(*                                                                         *)
(* Python strings that the code takes apart (mod display names) are        *)
(* sequences of one-character strings; strings the code only compares      *)
(* (mod ids, answers) are TLA+ strings.                                    *)
(***************************************************************************)
EXTENDS Integers, Sequences, FiniteSets, TLC

(***************************************************************************)
(* Python str operations, on sequences of characters.                      *)
(***************************************************************************)
Digits == {"0", "1", "2", "3", "4", "5", "6", "7", "8", "9"}

LowerCase == {"a", "b", "c", "d", "e", "f", "g", "h", "i", "j", "k", "l", "m",
              "n", "o", "p", "q", "r", "s", "t", "u", "v", "w", "x", "y", "z"}

\* s[i:]  (i is a 1-based position here)
Tail_from(s, i) == SubSeq(s, i, Len(s))

\* s.startswith(p) with s taken from position i
MatchesAt(s, i, p) ==
    /\ i + Len(p) - 1 <= Len(s)
    /\ \A k \in 1..Len(p) : s[i + k - 1] = p[k]

StartsWith(s, p) == MatchesAt(s, 1, p)

EndsWith(s, p) == Len(p) <= Len(s) /\ MatchesAt(s, Len(s) - Len(p) + 1, p)

\* s.find(p): 0-based index of the first occurrence, -1 when there is none
RECURSIVE FindFrom(_, _, _)
FindFrom(s, p, i) ==
    IF i + Len(p) - 1 > Len(s) THEN -1
    ELSE IF MatchesAt(s, i, p) THEN i - 1
    ELSE FindFrom(s, p, i + 1)

Find(s, p) == FindFrom(s, p, 1)

\* p in s
Contains(s, p) == Find(s, p) # -1

\* s.replace(p, r) for a non-empty p: leftmost, non-overlapping occurrences
RECURSIVE ReplaceFrom(_, _, _, _)
ReplaceFrom(s, p, r, i) ==
    IF i > Len(s) THEN <<>>
    ELSE IF MatchesAt(s, i, p) THEN r \o ReplaceFrom(s, p, r, i + Len(p))
    ELSE <<s[i]>> \o ReplaceFrom(s, p, r, i + 1)

Replace(s, p, r) == ReplaceFrom(s, p, r, 1)

\* " ".join(s.split()): runs of blanks become one blank, none at either end
RECURSIVE JoinSplitFrom(_, _, _)
JoinSplitFrom(s, i, started) ==
    IF i > Len(s) THEN <<>>
    ELSE IF s[i] = " " THEN JoinSplitFrom(s, i + 1, started)
    ELSE (IF started /\ i > 1 /\ s[i - 1] = " " THEN <<" ">> ELSE <<>>)
         \o <<s[i]>> \o JoinSplitFrom(s, i + 1, TRUE)

JoinSplit(s) == JoinSplitFrom(s, 1, FALSE)

\* s.strip()
RECURSIVE LStrip(_)
LStrip(s) == IF s # <<>> /\ s[1] = " " THEN LStrip(Tail(s)) ELSE s

RECURSIVE RStrip(_)
RStrip(s) ==
    IF s # <<>> /\ s[Len(s)] = " " THEN RStrip(SubSeq(s, 1, Len(s) - 1)) ELSE s

Strip(s) == RStrip(LStrip(s))

(***************************************************************************)
(* The version-garbage regular expression of cleanup_garbage_name, as      *)
(* Python's re matches it: alternatives in order, greedy repetitions.      *)
(* Each operator returns the position after the match, 0 for no match.     *)
(***************************************************************************)
\* the first of two alternatives that matches
FirstMatch(a, b) == IF a # 0 THEN a ELSE b

\* \d+ at i: the position after the longest run of digits, 0 when none
RECURSIVE DigitsEnd(_, _)
DigitsEnd(s, i) ==
    IF i <= Len(s) /\ s[i] \in Digits THEN FirstMatch(DigitsEnd(s, i + 1), i + 1) ELSE 0

\* 1.0 at i: "1", any character, "0"
Dotted(s, i) == IF i + 2 <= Len(s) /\ s[i] = "1" /\ s[i + 2] = "0" THEN i + 3 ELSE 0

\* (A|B)\d+ at i
Lettered(s, i) == IF i <= Len(s) /\ s[i] \in {"A", "B"} THEN DigitsEnd(s, i + 1) ELSE 0

\* a match ending before e counts when `close` follows (close = "": anything)
IfFollowed(s, e, close) ==
    IF e # 0 /\ (close = "" \/ (e <= Len(s) /\ s[e] = close)) THEN e ELSE 0

\* (1.0|(A|B)\d+) at i, followed by `close`
VersionTag(s, i, close) ==
    FirstMatch(IfFollowed(s, Dotted(s, i), close), IfFollowed(s, Lettered(s, i), close))

\* \.\d+ at d, when something matched up to d
DotDigits(s, d) ==
    IF d # 0 /\ d <= Len(s) /\ s[d] = "." THEN DigitsEnd(s, d + 1) ELSE 0

\* ([a-z]|) at e
OptionalLetter(s, e) == IF e <= Len(s) /\ s[e] \in LowerCase THEN e + 1 ELSE e

\* (\.\d+|)([a-z]|) at d2, when \d+\.\d+ matched up to d2
VersionRest(s, d2) ==
    IF d2 = 0 THEN 0 ELSE OptionalLetter(s, FirstMatch(DotDigits(s, d2), d2))

\* (v|V|)\d+\.\d+(\.\d+|)([a-z]|)
NumberedVersion(s, i) ==
    VersionRest(s, DotDigits(s, DigitsEnd(s, IF i <= Len(s) /\ s[i] \in {"v", "V"}
                                                THEN i + 1 ELSE i)))

\* the closing bracket after a tag that ends before e
Closed(e) == IF e = 0 THEN 0 ELSE e + 1

\* \[(1.0|(A|B)\d+)\]  and  \((1.0|(A|B)\d+)\)
BracketedVersion(s, i, open, close) ==
    IF i <= Len(s) /\ s[i] = open THEN Closed(VersionTag(s, i + 1, close)) ELSE 0

\* (for |R|)(1.0|(A|B)\d+)
PrefixedVersion(s, i) ==
    FirstMatch(IF MatchesAt(s, i, <<"f", "o", "r", " ">>) THEN VersionTag(s, i + 4, "") ELSE 0,
      FirstMatch(IF i <= Len(s) /\ s[i] = "R" THEN VersionTag(s, i + 1, "") ELSE 0,
                 VersionTag(s, i, "")))

\* \.1(8|9)
MinorVersion(s, i) ==
    IF i + 2 <= Len(s) /\ s[i] = "." /\ s[i + 1] = "1" /\ s[i + 2] \in {"8", "9"}
    THEN i + 3 ELSE 0

\* the whole pattern at i: the first alternative that matches
RegexMatchEnd(s, i) ==
    FirstMatch(NumberedVersion(s, i),
      FirstMatch(BracketedVersion(s, i, "[", "]"),
        FirstMatch(BracketedVersion(s, i, "(", ")"),
          FirstMatch(PrefixedVersion(s, i), MinorVersion(s, i)))))

\* re.sub(regex, "", s)
RECURSIVE RegexSubFrom(_, _)
RECURSIVE RegexSubStep(_, _, _)
RegexSubStep(s, i, e) ==
    IF e # 0 THEN RegexSubFrom(s, e) ELSE <<s[i]>> \o RegexSubFrom(s, i + 1)

RegexSubFrom(s, i) == IF i > Len(s) THEN <<>> ELSE RegexSubStep(s, i, RegexMatchEnd(s, i))

RegexSub(s) == RegexSubFrom(s, 1)

\* `if clean.find(p): clean = clean.replace(p, "")`: find() is -1 (true) when p
\* is absent and 0 (false) when the name starts with p
ReplaceIfFind(s, p, r) == IF Find(s, p) # 0 THEN Replace(s, p, r) ELSE s

\* `if clean.endswith(p): clean = clean.replace(p, "")`
ReplaceIfEndsWith(s, p) == IF EndsWith(s, p) THEN Replace(s, p, <<>>) ELSE s

\* clean.replace(" - ", ": ").replace(" : ", ": "), then the blanks
Separators(s) ==
    Strip(JoinSplit(Replace(Replace(Replace(s, <<" ", "-", " ">>, <<":", " ">>),
                                    <<" ", ":", " ">>, <<":", " ">>),
                            <<" ", " ">>, <<" ">>)))

\* "cleanup ruined names": the emptied brackets
RuinedNames(s) == Replace(Replace(s, <<"(", ")">>, <<>>), <<"[", "]">>, <<>>)

\* "special cases"
SpecialCases(s) ==
    ReplaceIfFind(
      ReplaceIfFind(
        ReplaceIfFind(
          ReplaceIfFind(
            ReplaceIfEndsWith(
              ReplaceIfEndsWith(Replace(s, <<"(", "v", ".", " ", ")">>, <<>>),
                                <<" ", "V", "e", "r">>),
              <<" ", "%">>),
            <<"[", " ">>, <<"[">>),
          <<"(", " ", "&", " ", "b", "1", "9", ")">>, <<>>),
        <<"[", "1", "9", "]">>, <<>>),
      <<"[", "/", "]", " ", "V", "e", "r", "s", "i", "o", "n">>, <<>>)

\* if clean.endswith(":"): clean = clean[:-1]
DropLastColon(s) == IF EndsWith(s, <<":">>) THEN SubSeq(s, 1, Len(s) - 1) ELSE s

\* if clean.startswith(": "): clean = clean[2:]
DropFirstColon(s) == IF StartsWith(s, <<":", " ">>) THEN Tail_from(s, 3) ELSE s

\* if clean.startswith("-"): clean = clean[1:]
DropFirstDash(s) == IF StartsWith(s, <<"-">>) THEN Tail(s) ELSE s

cleanup_garbage_name(garbage_name) ==
    Strip(DropFirstDash(DropFirstColon(DropLastColon(
        SpecialCases(RuinedNames(Separators(RegexSub(RegexSub(garbage_name)))))))))

(***************************************************************************)
(* Mod ids, the scoring database and the mod directories.                  *)
(***************************************************************************)
\* the text of an empty <li/> element is Python's None, written NoneText here
NoneText == "<None>"

\* str(mods): the text the code gives a new <li> element
str(x) == IF x = NoneText THEN "None" ELSE x

\* the score of a mod whose name the database does not hold (Python's None)
NoScore == -1

\* display names (About.xml <name> texts)
NameCore  == <<"C", "o", "r", "e">>
NameA     == <<"A">>
NameB     == <<"B">>
NameX     == <<"X">>
NameZ     == <<"Z">>
TextA     == <<"A", " ", "v", "1", ".", "2">>
TextB19   == <<"B", " ", "[", "B", "1", "9", "]">>
TextXA17  == <<"X", " ", "(", "A", "1", "7", ")">>

\* rwms_db_categories.json: category -> [score, ...]
CategoriesDocument ==
    [empty |-> FALSE,
     map   |-> ("core" :> <<0>>) @@ ("early" :> <<1>>) @@ ("late" :> <<3>>)]

\* rwmsdb.json: database["db"] is name -> category; "ghost" has no score
DatabaseDocument ==
    [empty |-> FALSE,
     map   |-> (NameCore :> "core") @@ (NameA :> "late") @@ (NameB :> "early")
               @@ (NameZ :> "ghost")]

\* json.loads of an empty body is never called: db stays dict()
EmptyDocument == [empty |-> TRUE, map |-> <<>>]

\* what urlopen and json.loads can do with one database URL
FetchOutcomes == {"ok", "unreachable", "undecodable", "empty"}

\* download_database(url): the document, or the fatal error that ends the run
download_database(outcome, document) ==
    CASE outcome = "unreachable" -> [fatal |-> TRUE,  doc |-> EmptyDocument]
      [] outcome = "undecodable" -> [fatal |-> TRUE,  doc |-> EmptyDocument]
      [] outcome = "empty"       -> [fatal |-> FALSE, doc |-> EmptyDocument]
      [] OTHER                   -> [fatal |-> FALSE, doc |-> document]

\* titles of the Steam workshop page of a mod
SteamPrefix ==
    <<"S", "t", "e", "a", "m", " ", "W", "o", "r", "k", "s", "h", "o", "p", " ", ":", ":", " ">>
SteamErrorTitle ==
    <<"S", "t", "e", "a", "m", " ", "C", "o", "m", "m", "u", "n", "i", "t", "y", " ", ":",
      ":", " ", "E", "r", "r", "o", "r">>

\* one mod folder: its name, the state of About/About.xml, the <name> text,
\* and what the workshop page of the folder answers
Folder(id, about, text, page, title) ==
    [name |-> id, about |-> about, text |-> text, page |-> page, title |-> title]

FolderOk(id, text)       == Folder(id, "ok", text, "unreachable", <<>>)
FolderNoAbout(id)        == Folder(id, "none", <<>>, "unreachable", <<>>)
FolderNoName(id)         == Folder(id, "noname", <<>>, "unreachable", <<>>)
FolderMalformed(id, page, title) == Folder(id, "malformed", <<>>, page, title)

\* a mod record: the tuple (mod_id, score, name, mod_source)
ModInfo(mod_id, score, name, mod_source) ==
    [id |-> mod_id, score |-> score, name |-> name, source |-> mod_source]

(***************************************************************************)
(* Python dicts keyed by mod id, in insertion order: sequences of records  *)
(* with distinct ids.                                                      *)
(***************************************************************************)
Keys(d) == {d[i].id : i \in 1..Len(d)}

Has(d, k) == k \in Keys(d)

Get(d, k) == d[CHOOSE i \in 1..Len(d) : d[i].id = k]

\* d[info.id] = info
Put(d, info) ==
    IF Has(d, info.id)
    THEN [i \in 1..Len(d) |-> IF d[i].id = info.id THEN info ELSE d[i]]
    ELSE Append(d, info)

\* a merge in which the record of the first map wins
RECURSIVE MergeKeepFirst(_, _)
MergeKeepFirst(a, b) ==
    IF b = <<>> THEN a
    ELSE MergeKeepFirst(IF Has(a, Head(b).id) THEN a ELSE Append(a, Head(b)), Tail(b))

\* {**a, **b}
RECURSIVE Merge(_, _)
Merge(a, b) == IF b = <<>> THEN a ELSE Merge(Put(a, Head(b)), Tail(b))

(***************************************************************************)
(* load_mod_data                                                           *)
(***************************************************************************)
\* a loader whose fatal_error on the workshop error page is not caught
FolderNameErrorPageFatal(f, steam) ==
    CASE f.about = "none"   -> [st |-> "skip",  name |-> <<>>]
      [] f.about = "ok"     -> [st |-> "name",  name |-> f.text]
      [] f.about = "noname" -> [st |-> "error", name |-> <<>>]
      [] OTHER ->
            IF ~steam THEN [st |-> "exit", name |-> <<>>]
            ELSE IF f.page # "found" THEN [st |-> "skip", name |-> <<>>]
            ELSE IF Contains(f.title, SteamErrorTitle)
                 THEN [st |-> "exit", name |-> <<>>]
            ELSE [st |-> "name", name |-> Replace(f.title, SteamPrefix, <<>>)]

\* the display name of one folder: "name", "skip" (continue), "exit"
\* (fatal_error) or "error" (an exception nothing catches)
FolderName(f, steam) ==
    CASE f.about = "none"   -> [st |-> "skip",  name |-> <<>>]
      [] f.about = "ok"     -> [st |-> "name",  name |-> f.text]
      [] f.about = "noname" -> [st |-> "error", name |-> <<>>]
      [] OTHER ->
            IF ~steam THEN [st |-> "exit", name |-> <<>>]
            ELSE IF f.page # "found" THEN [st |-> "skip", name |-> <<>>]
            \* fatal_error's SystemExit is raised inside the try: the bare
            \* except catches it and the loop continues
            ELSE IF Contains(f.title, SteamErrorTitle)
                 THEN [st |-> "skip", name |-> <<>>]
            ELSE [st |-> "name", name |-> Replace(f.title, SteamPrefix, <<>>)]

\* a lookup that takes a category without score for a name the database
\* does not hold
ScoreOfLenient(categories, db, name) ==
    IF name \in DOMAIN db.map /\ db.map[name] \in DOMAIN categories.map
    THEN [fatal |-> FALSE, score |-> categories.map[db.map[name]][1]]
    ELSE [fatal |-> FALSE, score |-> NoScore]

\* the score of a cleaned name: [fatal, score]
ScoreOf(categories, db, name) ==
    IF name \in DOMAIN db.map
    THEN IF db.map[name] \in DOMAIN categories.map
         THEN [fatal |-> FALSE, score |-> categories.map[db.map[name]][1]]
         ELSE [fatal |-> TRUE, score |-> NoScore]
    ELSE [fatal |-> FALSE, score |-> NoScore]

RECURSIVE LoadFolders(_, _, _, _, _, _)

\* mod_details[mod_id] = mod_info, or the fatal error of a category without score
RECURSIVE LoadScored(_, _, _, _, _, _, _, _)
LoadScored(categories, db, folder_list, mod_source, steam, mod_details, name, sc) ==
    IF sc.fatal THEN [st |-> "exit", mods |-> mod_details]
    ELSE LoadFolders(categories, db, Tail(folder_list), mod_source, steam,
                     Put(mod_details,
                         ModInfo(Head(folder_list).name, sc.score, name, mod_source)))

\* name = cleanup_garbage_name(name); if name in db["db"]: ...
RECURSIVE LoadNamed(_, _, _, _, _, _, _)
LoadNamed(categories, db, folder_list, mod_source, steam, mod_details, name) ==
    LoadScored(categories, db, folder_list, mod_source, steam, mod_details, name,
               ScoreOf(categories, db, name))

RECURSIVE LoadFolder(_, _, _, _, _, _, _)
LoadFolder(categories, db, folder_list, mod_source, steam, mod_details, got) ==
    CASE got.st = "skip" ->
            LoadFolders(categories, db, Tail(folder_list), mod_source, steam, mod_details)
      [] got.st \in {"exit", "error"} -> [st |-> got.st, mods |-> mod_details]
      [] OTHER ->
            LoadNamed(categories, db, folder_list, mod_source, steam, mod_details,
                      cleanup_garbage_name(got.name))

\* for mod_folder in folder_list: ...
LoadFolders(categories, db, folder_list, mod_source, steam, mod_details) ==
    IF folder_list = <<>> THEN [st |-> "ok", mods |-> mod_details]
    ELSE LoadFolder(categories, db, folder_list, mod_source, steam, mod_details,
                    FolderName(Head(folder_list), steam))

load_mod_data(categories, db, basedir, mod_source, steam) ==
    LoadFolders(categories, db, basedir.folders, mod_source, steam, <<>>)

(***************************************************************************)
(* Files.  ModsConfig.xml is the sequence of the pieces written to it: the *)
(* XML prolog and the root element with the <li> texts of <activeMods>.    *)
(***************************************************************************)
Prolog   == [kind |-> "prolog", li |-> <<>>]
Root(li) == [kind |-> "root", li |-> li]
Garbage  == [kind |-> "garbage", li |-> <<>>]

ConfigDocument(li) == [exists |-> TRUE, chunks |-> <<Prolog, Root(li)>>]
ConfigUnparsable   == [exists |-> TRUE, chunks |-> <<Garbage>>]
ConfigMissing      == [exists |-> FALSE, chunks |-> <<>>]
Truncated          == [exists |-> TRUE, chunks |-> <<>>]

\* ElementTree.parse(file): the <li> texts, or a ParseError
ElementTreeParse(file) ==
    IF file.exists /\ file.chunks # <<>> /\ file.chunks[Len(file.chunks)].kind = "root"
    THEN [ok |-> TRUE, li |-> file.chunks[Len(file.chunks)].li]
    ELSE [ok |-> FALSE, li |-> <<>>]

\* mods_config_file.with_suffix(f".backup-{now}.xml")
BackupPath(now) == <<"ModsConfig", ".backup-", now, ".xml">>

\* time.strftime("%Y%m%d-%H%M", time.localtime(time.time())): the day and
\* hour, and the minute the clock shows
strftime(minute) == <<"20261101-04", 14 + minute>>

\* the local variable backup_file of save_results before it is assigned
NoPath == <<>>

Directory(folders) == [kind |-> "dir", folders |-> folders]
DirectoryMissing   == [kind |-> "missing", folders |-> <<>>]
\* detect_localmods_dir() returns None when paths.localmodsdir is set
DirectoryUnresolved == [kind |-> "unresolved", folders |-> <<>>]

\* where the unknown-mod report says a mod is
LocalHint(mod_id)    == <<"<RimWorld install directory>", "Mods", mod_id>>
WorkshopHint(mod_id) == <<"https://steamcommunity.com/sharedfiles/filedetails/?id=", mod_id>>
NoHint               == <<>>

NoReport == [written |-> FALSE, unknown |-> <<>>]

(***************************************************************************)
(* The state of one run.                                                   *)
(***************************************************************************)
VARIABLES
    \* command line and rwms_config.ini
    args, dont_remove_unknown, disable_steam, cfg_disablesteam, github_configured,
    \* network, directories and the fault the file system will raise
    categories_fetch, database_fetch, workshop_dir, local_dir, io_fault,
    \* files
    mods_config_file, backup_files, unknown_file, original_config, backup_file,
    \* main()
    pc, categories, database, mods_enabled_list, mod_data_workshop, mod_data_local,
    mod_data_full, mod_data_known, mod_data_unknown, mods_data_active,
    mods_unknown_active, new_list, doc, data, write_mods_config, dry_run_printed,
    running, exit_code, error,
    \* a display name and the results of cleaning it again and again
    garbage_name, clean,
    \* the minute the clock shows, and for each rewrite of ModsConfig.xml by
    \* an earlier run the content it replaced and the backup path it used
    clock, before

settings == <<args, dont_remove_unknown, disable_steam, cfg_disablesteam,
              github_configured>>
world    == <<categories_fetch, database_fetch, workshop_dir, local_dir, io_fault,
              original_config>>
files    == <<mods_config_file, backup_files, unknown_file, backup_file>>
loaded   == <<categories, database, mods_enabled_list, mod_data_workshop,
              mod_data_local>>
merged   == <<mod_data_full, mod_data_known, mod_data_unknown, mods_data_active,
              mods_unknown_active>>
prompts  == <<data, write_mods_config, dry_run_printed>>
exits    == <<running, exit_code, error>>
normalizer == <<garbage_name, clean>>
rewrites == <<clock, before>>

vars == <<settings, world, files, loaded, merged, new_list, doc, prompts, pc, exits,
          normalizer, rewrites>>

\* the local variable `data` before any input() was assigned to it
Unbound == "<unbound>"

Answers == {"y", "n"}

\* the statement main() is at, while the process runs
At(label) == running /\ pc = label

\* sys.exit(code): the process ends where it is
Exit(code, how) ==
    /\ running' = FALSE
    /\ exit_code' = code
    /\ error' = how
    /\ UNCHANGED pc

Goto(label) ==
    /\ pc' = label
    /\ UNCHANGED exits

\* an error exit that reports success to the caller of the process
ExitZero == Exit(0, "fatal_error")

\* RWMS.error.fatal_error(message, wait): prints and sys.exit(1)
fatal_error == Exit(1, "fatal_error")

\* an exception that no handler catches: traceback, exit status 1
Uncaught(exception) == Exit(1, exception)

\* wait_for_exit(exit_code, wfo)
wait_for_exit(code) == Exit(code, "")

\* RWMS.configuration.detect_rimworld_steam() is not None (on linux and
\* darwin detect_steam() is None exactly when disablesteam is set)
detect_rimworld_steam == ~cfg_disablesteam

\* RWMS.configuration.detect_steamworkshop_dir() is not None
detect_steamworkshop_dir == ~cfg_disablesteam


(***************************************************************************)
(* main(): database, ModsConfig.xml, mod directories                       *)
(***************************************************************************)
\* categories = download_database(categories_url); database = ...(database_url)
DownloadDatabases ==
    /\ At("download")
    /\ LET c == download_database(categories_fetch, CategoriesDocument)
           d == download_database(database_fetch, DatabaseDocument)
       IN  IF c.fatal \/ c.doc.empty
           THEN fatal_error /\ UNCHANGED <<categories, database>>
           ELSE IF d.fatal \/ d.doc.empty
           THEN fatal_error /\ categories' = c.doc /\ UNCHANGED database
           ELSE Goto("parse_config") /\ categories' = c.doc /\ database' = d.doc
    /\ UNCHANGED <<normalizer, rewrites, settings, world, files, mods_enabled_list, mod_data_workshop,
                   mod_data_local, merged, new_list, doc, prompts>>

\* "Core" is appended to the enabled list when the file does not name it
EnsureCore(li) == IF \E i \in 1..Len(li) : li[i] = "Core" THEN li ELSE Append(li, "Core")

\* mods_config_file.exists(), ElementTree.parse, the <li> texts of activeMods
ParseModsConfig ==
    /\ At("parse_config")
    /\ LET xml == ElementTreeParse(mods_config_file)
       IN  IF ~mods_config_file.exists \/ ~xml.ok
           THEN fatal_error /\ UNCHANGED mods_enabled_list
           ELSE Goto("load_workshop") /\ mods_enabled_list' = EnsureCore(xml.li)
    /\ UNCHANGED <<normalizer, rewrites, settings, world, files, categories, database, mod_data_workshop,
                   mod_data_local, merged, new_list, doc, prompts>>

\* what main() does with the result r of load_mod_data
WorkshopLoaded(r) ==
    CASE r.st = "ok"   -> Goto("load_local") /\ mod_data_workshop' = r.mods
      [] r.st = "exit" -> fatal_error /\ UNCHANGED mod_data_workshop
      [] OTHER         -> Uncaught("AttributeError") /\ UNCHANGED mod_data_workshop

LocalLoaded(r) ==
    CASE r.st = "ok"   -> Goto("reconcile") /\ mod_data_local' = r.mods
      [] r.st = "exit" -> fatal_error /\ UNCHANGED mod_data_local
      [] OTHER         -> Uncaught("AttributeError") /\ UNCHANGED mod_data_local

\* mod_data_workshop: filled only when steam is enabled on the command line
\* and in rwms_config.ini
LoadWorkshopMods ==
    /\ At("load_workshop")
    /\ IF disable_steam \/ ~detect_steamworkshop_dir
       THEN Goto("load_local") /\ UNCHANGED mod_data_workshop
       ELSE IF workshop_dir.kind # "dir"
       THEN fatal_error /\ UNCHANGED mod_data_workshop
       ELSE WorkshopLoaded(load_mod_data(categories, database, workshop_dir, "W",
                                         detect_rimworld_steam))
    /\ UNCHANGED <<normalizer, rewrites, settings, world, files, categories, database, mods_enabled_list,
                   mod_data_local, merged, new_list, doc, prompts>>

LoadLocalMods ==
    /\ At("load_local")
    /\ IF local_dir.kind = "unresolved"
       THEN Uncaught("AttributeError") /\ UNCHANGED mod_data_local
       ELSE IF local_dir.kind # "dir"
       THEN fatal_error /\ UNCHANGED mod_data_local
       ELSE LocalLoaded(load_mod_data(categories, database, local_dir, "L",
                                      detect_rimworld_steam))
    /\ UNCHANGED <<normalizer, rewrites, settings, world, files, categories, database, mods_enabled_list,
                   mod_data_workshop, merged, new_list, doc, prompts>>

(***************************************************************************)
(* main(): known and unknown mods, the active lists, the sort              *)
(***************************************************************************)
\* mod_data_known / mod_data_unknown: the records with and without a score
KnownOf(full)   == SelectSeq(full, LAMBDA m : m.score # NoScore)
UnknownOf(full) == SelectSeq(full, LAMBDA m : m.score = NoScore)

\* for mods in mods_enabled_list: try mods_data_active.append(...)
\*                                except KeyError: mods_unknown_active.append(mods)
RECURSIVE ActiveKnownOf(_, _)
ActiveKnownOf(enabled, known) ==
    IF enabled = <<>> THEN <<>>
    ELSE (IF Has(known, Head(enabled))
          THEN <<<<Head(enabled), Get(known, Head(enabled)).score>>>>
          ELSE <<>>) \o ActiveKnownOf(Tail(enabled), known)

\* an unknown list that leaves out the <li/> elements without text
RECURSIVE ActiveUnknownWithText(_, _)
ActiveUnknownWithText(enabled, known) ==
    IF enabled = <<>> THEN <<>>
    ELSE (IF Has(known, Head(enabled)) \/ Head(enabled) = NoneText
          THEN <<>> ELSE <<Head(enabled)>>)
         \o ActiveUnknownWithText(Tail(enabled), known)

RECURSIVE ActiveUnknownOf(_, _)
ActiveUnknownOf(enabled, known) ==
    IF enabled = <<>> THEN <<>>
    ELSE (IF Has(known, Head(enabled)) THEN <<>> ELSE <<Head(enabled)>>)
         \o ActiveUnknownOf(Tail(enabled), known)

Reconcile ==
    /\ At("reconcile")
    /\ LET full == Merge(mod_data_local, mod_data_workshop)
       IN  /\ mod_data_full' = full
           /\ mod_data_known' = KnownOf(full)
           /\ mod_data_unknown' = UnknownOf(full)
           /\ mods_data_active' = ActiveKnownOf(mods_enabled_list, KnownOf(full))
           /\ mods_unknown_active' = ActiveUnknownOf(mods_enabled_list, KnownOf(full))
    /\ Goto("sort")
    /\ UNCHANGED <<normalizer, rewrites, settings, world, files, loaded, new_list, doc, prompts>>

\* an insertion that puts an entry before the entries of its own score: the
\* sort it gives is ascending and not stable
RECURSIVE InsertBeforeTies(_, _)
InsertBeforeTies(sorted_list, entry) ==
    IF sorted_list = <<>> THEN <<entry>>
    ELSE IF Head(sorted_list)[2] < entry[2]
         THEN <<Head(sorted_list)>> \o InsertBeforeTies(Tail(sorted_list), entry)
         ELSE <<entry>> \o sorted_list

\* sorted(mods_data_active, key=itemgetter(1)): ascending by score, stable
RECURSIVE InsertByScore(_, _)
InsertByScore(sorted_list, entry) ==
    IF sorted_list = <<>> THEN <<entry>>
    ELSE IF Head(sorted_list)[2] <= entry[2]
         THEN <<Head(sorted_list)>> \o InsertByScore(Tail(sorted_list), entry)
         ELSE <<entry>> \o sorted_list

RECURSIVE SortedFrom(_, _)
SortedFrom(list, acc) ==
    IF list = <<>> THEN acc
    ELSE SortedFrom(Tail(list), InsertByScore(acc, Head(list)))

\* a list left in the order of the EnabledList
Unsorted(list) == list

sorted(list) == SortedFrom(list, <<>>)

\* new_list = sorted(...); doc = ElementTree.parse(mods_config_file) with
\* every <li> of activeMods removed
SortMods ==
    /\ At("sort")
    /\ new_list' = sorted(mods_data_active)
    /\ IF ElementTreeParse(mods_config_file).ok
       THEN Goto("build") /\ doc' = <<>>
       ELSE Uncaught("ParseError") /\ UNCHANGED doc
    /\ UNCHANGED <<normalizer, rewrites, settings, world, files, loaded, merged, prompts>>


(***************************************************************************)
(* main(): the new active list, the unknown-mod report, the confirmation   *)
(***************************************************************************)
\* the <li> texts appended for a list of ids: "" is skipped, the rest str()ed
RECURSIVE LiTexts(_)
LiTexts(ids) ==
    IF ids = <<>> THEN <<>>
    ELSE (IF Head(ids) = "" THEN <<>> ELSE <<str(Head(ids))>>) \o LiTexts(Tail(ids))

\* the ids of the (id, score) pairs of a list
RECURSIVE Ids(_)
Ids(pairs) == IF pairs = <<>> THEN <<>> ELSE <<Head(pairs)[1]>> \o Ids(Tail(pairs))

\* known active mods in sorted order, then the unknown active ones when
\* dont_remove_unknown is set
ActiveListOf(sorted_list, unknown_active, keep_unknown) ==
    LiTexts(Ids(sorted_list))
    \o (IF keep_unknown /\ unknown_active # <<>> THEN LiTexts(unknown_active) ELSE <<>>)

\* args.reset_to_core: ask, and on "y" the list is Core alone
ResetToCore ==
    /\ At("build")
    /\ args.reset_to_core
    /\ \E answer \in Answers :
          /\ data' = answer
          /\ IF answer = "y"
             THEN doc' = <<"Core">> /\ write_mods_config' = TRUE
             ELSE UNCHANGED <<doc, write_mods_config>>
    /\ Goto("write")
    /\ UNCHANGED <<normalizer, rewrites, settings, world, files, loaded, merged, new_list, dry_run_printed>>

BuildActiveList ==
    /\ At("build")
    /\ ~args.reset_to_core
    /\ doc' = ActiveListOf(new_list, mods_unknown_active, dont_remove_unknown)
    /\ Goto("report")
    /\ UNCHANGED <<normalizer, rewrites, settings, world, files, loaded, merged, new_list, prompts>>

\* a report of the mods of the local directory alone
RECURSIVE UnknownDiffLocalOnly(_, _, _)
UnknownDiffLocalOnly(entries, steam_disabled, diff) ==
    IF entries = <<>> THEN diff
    ELSE UnknownDiffLocalOnly(Tail(entries), steam_disabled,
            IF Head(entries).source = "L"
            THEN (Head(entries).name :> <<"not_categorized", LocalHint(Head(entries).id)>>)
                 @@ diff
            ELSE diff)

\* unknown_diff[mod_entry[2]] = ("not_categorized", mod_loc), in dict order
RECURSIVE UnknownDiff(_, _, _)
UnknownDiff(entries, steam_disabled, diff) ==
    IF entries = <<>> THEN diff
    ELSE LET m   == Head(entries)
             loc == IF m.source = "L" THEN LocalHint(m.id)
                    ELSE IF ~steam_disabled THEN WorkshopHint(m.id)
                    ELSE NoHint
         IN  UnknownDiff(Tail(entries), steam_disabled,
                         (m.name :> <<"not_categorized", loc>>) @@ diff)

\* the report is written when some discovered mod has no score; without
\* GitHub credentials the user is then asked about opening the browser
WriteUnknownReport ==
    /\ At("report")
    /\ IF mod_data_unknown # <<>>
       THEN /\ unknown_file' = [written |-> TRUE,
                                unknown |-> UnknownDiff(mod_data_unknown, disable_steam, <<>>)]
            /\ IF github_configured THEN UNCHANGED data
               ELSE \E answer \in Answers : data' = answer
       ELSE UNCHANGED <<unknown_file, data>>
    /\ Goto("confirm")
    /\ UNCHANGED <<normalizer, rewrites, settings, world, mods_config_file, backup_files, backup_file,
                   loaded, merged, new_list, doc, write_mods_config, dry_run_printed>>

\* print_dry_run(config_file, final_doc, mod_data): mod_data[mod] of every
\* <li> text of the file and of the new list
print_dry_run(config_file, final_doc, mod_data) ==
    LET initial == ElementTreeParse(config_file).li
    IN  IF /\ \A i \in 1..Len(initial) : Has(mod_data, initial[i])
           /\ \A i \in 1..Len(final_doc) : Has(mod_data, final_doc[i])
        THEN "printed"
        ELSE "KeyError"

\* if args.dry_run: print_dry_run(...); write_mods_config = False
\* while True and not args.dry_run: data = input(...)
\* if data.lower() == "y": write_mods_config = True
ConfirmWrite ==
    /\ At("confirm")
    /\ IF args.dry_run
       THEN IF print_dry_run(mods_config_file, doc, mod_data_full) = "KeyError"
            THEN Uncaught("KeyError") /\ UNCHANGED prompts
            ELSE /\ dry_run_printed' = TRUE
                 /\ UNCHANGED data
                 /\ IF data = Unbound
                    THEN Uncaught("UnboundLocalError") /\ write_mods_config' = FALSE
                    ELSE Goto("write") /\ write_mods_config' = (data = "y")
       ELSE /\ \E answer \in Answers :
                  data' = answer /\ write_mods_config' = (answer = "y")
            /\ Goto("write")
            /\ UNCHANGED dry_run_printed
    /\ UNCHANGED <<normalizer, rewrites, settings, world, files, loaded, merged, new_list, doc>>

\* a run that saves the results whatever the answer was
AlwaysWrite ==
    /\ At("write")
    /\ Goto("save_backup")
    /\ UNCHANGED <<normalizer, rewrites, settings, world, files, loaded, merged, new_list, doc,
                   prompts>>

\* if write_mods_config: save_results(...) else: "ModsConfig.xml was NOT modified."
DecideWrite ==
    /\ At("write")
    /\ IF write_mods_config THEN Goto("save_backup") ELSE wait_for_exit(0)
    /\ UNCHANGED <<normalizer, rewrites, settings, world, files, loaded, merged, new_list, doc, prompts>>

(***************************************************************************)
(* save_results(mods_config_file, doc)                                     *)
(***************************************************************************)
\* a copy that reports success and writes nothing
NothingCopied(src, dst, directory) == directory

\* shutil.copy(src, dst): dst holds the content of src, replacing what it held
shutil_copy(src, dst, directory) == (dst :> src) @@ directory

\* backup_file = ...with_suffix(f".backup-{now}.xml"); shutil.copy(...): a
\* failed copy may leave a partial backup file behind
SaveBackup ==
    /\ At("save_backup")
    /\ backup_file' = BackupPath(strftime(clock))
    /\ IF io_fault = "copy"
       THEN /\ Uncaught("OSError")
            /\ \E partial \in BOOLEAN :
                  backup_files' = IF partial
                                  THEN (backup_file' :> Truncated) @@ backup_files
                                  ELSE backup_files
       ELSE /\ Goto("save_open")
            /\ backup_files' = shutil_copy(mods_config_file, backup_file', backup_files)
    /\ UNCHANGED <<normalizer, rewrites, settings, world, mods_config_file, unknown_file, loaded, merged,
                   new_list, doc, prompts>>

\* open(mods_config_file, "w", ...): the file is empty once it is open
SaveOpen ==
    /\ At("save_open")
    /\ IF io_fault = "open"
       THEN Uncaught("OSError") /\ UNCHANGED mods_config_file
       ELSE Goto("save_prolog") /\ mods_config_file' = Truncated
    /\ UNCHANGED <<normalizer, rewrites, settings, world, backup_files, unknown_file, backup_file,
                   loaded, merged, new_list, doc, prompts>>

\* f.write('<?xml version="1.0" encoding="utf-8"?>\n')
SaveProlog ==
    /\ At("save_prolog")
    /\ IF io_fault = "write_prolog"
       THEN Uncaught("OSError") /\ UNCHANGED mods_config_file
       ELSE /\ Goto("save_body")
            /\ mods_config_file' =
                  [mods_config_file EXCEPT !.chunks = Append(@, Prolog)]
    /\ UNCHANGED <<normalizer, rewrites, settings, world, backup_files, unknown_file, backup_file,
                   loaded, merged, new_list, doc, prompts>>

\* f.write(mods_config_str) and the end of the with block
SaveBody ==
    /\ At("save_body")
    /\ IF io_fault = "write_body"
       THEN Uncaught("OSError") /\ UNCHANGED mods_config_file
       ELSE /\ Goto("saved")
            /\ mods_config_file' =
                  [mods_config_file EXCEPT !.chunks = Append(@, Root(doc))]
    /\ UNCHANGED <<normalizer, rewrites, settings, world, backup_files, unknown_file, backup_file,
                   loaded, merged, new_list, doc, prompts>>

\* "Writing done." and wait_for_exit(0, wait_on_exit)
Finish ==
    /\ At("saved")
    /\ wait_for_exit(0)
    /\ UNCHANGED <<normalizer, rewrites, settings, world, files, loaded, merged, new_list, doc, prompts>>


(***************************************************************************)
(* The runs that are checked.  A world is everything main() finds: the     *)
(* settings, ModsConfig.xml, the two mod directories, the network and the  *)
(* fault the file system raises.  The worlds vary the data with the        *)
(* settings fixed, the settings with a few data sets, the faults, and the  *)
(* states of the mod folders.                                              *)
(***************************************************************************)
\* the longest <activeMods> list read from ModsConfig.xml
MaxEnabled == 3

EnabledIds == {"Core", "ModA", "ModB", NoneText}

EnabledLists == UNION {[1..n -> EnabledIds] : n \in 0..MaxEnabled}

Faults == {"none", "copy", "open", "write_prolog", "write_body"}

BaseWorld ==
    [config     |-> ConfigDocument(<<"ModA", "ModB", "Core">>),
     local      |-> Directory(<<FolderOk("Core", NameCore), FolderOk("ModA", TextA)>>),
     workshop   |-> Directory(<<>>),
     dry        |-> FALSE,
     reset      |-> FALSE,
     keep       |-> FALSE,
     nosteam    |-> TRUE,
     cfgnosteam |-> TRUE,
     github     |-> TRUE,
     cfetch     |-> "ok",
     dfetch     |-> "ok",
     fault      |-> "none"]

\* the states of the folders of Core, ModA and ModB: missing, scored, not
\* in the database
CoreFolders == {<<>>, <<FolderOk("Core", NameCore)>>, <<FolderOk("Core", NameX)>>}
ModAFolders == {<<>>, <<FolderOk("ModA", TextA)>>, <<FolderOk("ModA", TextB19)>>}
ModBFolders == {<<>>, <<FolderOk("ModB", NameB)>>, <<FolderOk("ModB", TextXA17)>>}

\* every enabled list against the scored, unscored and missing records
DataWorld(li, c, a, b, k) ==
    [BaseWorld EXCEPT !.config = ConfigDocument(li),
                      !.local = Directory(c \o a \o b),
                      !.keep = k]

SomeLists == {<<"Core", "ModA">>, <<"ModB", "ModA">>, <<NoneText, "Core">>}

SomeLocalDirs ==
    {Directory(<<FolderOk("Core", NameCore), FolderOk("ModA", TextA)>>),
     Directory(<<FolderOk("Core", NameCore), FolderOk("ModA", TextA),
                 FolderOk("ModB", NameX)>>)}

SomeWorkshopDirs ==
    {Directory(<<>>),
     Directory(<<FolderOk("ModA", TextXA17), FolderOk("ModB", NameB)>>)}

\* every setting against a few data sets
SettingWorld(li, l, w, d, r, k, s, c, g) ==
    [BaseWorld EXCEPT !.config = ConfigDocument(li), !.local = l, !.workshop = w,
                      !.dry = d, !.reset = r, !.keep = k, !.nosteam = s,
                      !.cfgnosteam = c, !.github = g]

\* every fault of the file system
FaultWorld(li, l, r, k, f) ==
    [BaseWorld EXCEPT !.config = ConfigDocument(li), !.local = l, !.reset = r,
                      !.keep = k, !.fault = f]

\* every missing or broken file and directory
SomeConfigs == {ConfigMissing, ConfigUnparsable, ConfigDocument(<<"ModA">>)}

BrokenWorld(cf, l, w, s, d) ==
    [BaseWorld EXCEPT !.config = cf, !.local = l, !.workshop = w, !.nosteam = s,
                      !.cfgnosteam = s, !.dry = d]

\* every outcome of the two downloads
FetchWorld(c, d, r) == [BaseWorld EXCEPT !.cfetch = c, !.dfetch = d, !.dry = r]

\* every state of a mod folder, in both directories
FolderStates(id) ==
    {<<>>,
     <<FolderNoAbout(id)>>,
     <<FolderNoName(id)>>,
     <<FolderMalformed(id, "unreachable", <<>>)>>,
     <<FolderMalformed(id, "found", SteamErrorTitle)>>,
     <<FolderMalformed(id, "found", SteamPrefix \o NameB)>>,
     <<FolderOk(id, NameZ)>>,
     <<FolderOk(id, TextA)>>,
     <<FolderOk(id, NameX)>>}

LoaderWorld(a, b, w, s, c) ==
    [BaseWorld EXCEPT !.local = Directory(<<FolderOk("Core", NameCore)>> \o a \o b),
                      !.workshop = Directory(w), !.nosteam = s, !.cfgnosteam = c,
                      !.keep = TRUE]

\* the state main() starts in, in the world w
StartIn(w) ==
    /\ args = [dry_run |-> w.dry, reset_to_core |-> w.reset]
    /\ dont_remove_unknown = w.keep
    /\ disable_steam = w.nosteam
    /\ cfg_disablesteam = w.cfgnosteam
    /\ github_configured = w.github
    /\ categories_fetch = w.cfetch
    /\ database_fetch = w.dfetch
    /\ workshop_dir = w.workshop
    /\ local_dir = w.local
    /\ io_fault = w.fault
    /\ mods_config_file = w.config
    /\ original_config = w.config
    /\ backup_files = <<>>
    /\ backup_file = NoPath
    /\ unknown_file = NoReport
    /\ pc = "download"
    /\ categories = EmptyDocument
    /\ database = EmptyDocument
    /\ mods_enabled_list = <<>>
    /\ mod_data_workshop = <<>>
    /\ mod_data_local = <<>>
    /\ mod_data_full = <<>>
    /\ mod_data_known = <<>>
    /\ mod_data_unknown = <<>>
    /\ mods_data_active = <<>>
    /\ mods_unknown_active = <<>>
    /\ new_list = <<>>
    /\ doc = <<>>
    /\ data = Unbound
    /\ write_mods_config = FALSE
    /\ dry_run_printed = FALSE
    /\ running = TRUE
    /\ exit_code = 0
    /\ error = ""

\* the first run on these files
FirstRun == clock = 1 /\ before = <<>>

InitWorld(w) == StartIn(w) /\ garbage_name = <<>> /\ clean = <<>> /\ FirstRun

Init ==
    \/ \E li \in EnabledLists, c \in CoreFolders, a \in ModAFolders,
          b \in ModBFolders, k \in BOOLEAN :
          InitWorld(DataWorld(li, c, a, b, k))
    \/ \E li \in SomeLists, l \in SomeLocalDirs, w \in SomeWorkshopDirs,
          d \in BOOLEAN, r \in BOOLEAN, k \in BOOLEAN, s \in BOOLEAN, c \in BOOLEAN,
          g \in BOOLEAN :
          InitWorld(SettingWorld(li, l, w, d, r, k, s, c, g))
    \/ \E li \in SomeLists, l \in SomeLocalDirs, r \in BOOLEAN, k \in BOOLEAN,
          f \in Faults :
          InitWorld(FaultWorld(li, l, r, k, f))
    \/ \E cf \in SomeConfigs,
          l \in {DirectoryMissing, DirectoryUnresolved} \cup SomeLocalDirs,
          w \in {DirectoryMissing} \cup SomeWorkshopDirs, s \in BOOLEAN, d \in BOOLEAN :
          InitWorld(BrokenWorld(cf, l, w, s, d))
    \/ \E c \in FetchOutcomes, d \in FetchOutcomes, r \in BOOLEAN :
          InitWorld(FetchWorld(c, d, r))
    \/ \E a \in FolderStates("ModA"), b \in FolderStates("ModB"),
          w \in {<<>>} \cup FolderStates("ModA"), s \in BOOLEAN, c \in BOOLEAN :
          InitWorld(LoaderWorld(a, b, w, s, c))

Next ==
    \/ DownloadDatabases
    \/ ParseModsConfig
    \/ LoadWorkshopMods
    \/ LoadLocalMods
    \/ Reconcile
    \/ SortMods
    \/ ResetToCore
    \/ BuildActiveList
    \/ WriteUnknownReport
    \/ ConfirmWrite
    \/ DecideWrite
    \/ SaveBackup
    \/ SaveOpen
    \/ SaveProlog
    \/ SaveBody
    \/ Finish

Spec == Init /\ [][Next]_vars

(***************************************************************************)
(* cleanup_garbage_name on its own: a display name is cleaned, and the     *)
(* clean name is cleaned again.                                            *)
(***************************************************************************)
\* the most pieces a display name is put together from
MaxTokens == 5

NameTokens == {<<"A">>, <<":">>, <<"-">>, <<" ">>, <<" ", "-", " ">>}

RECURSIVE Flatten(_)
Flatten(tokens) == IF tokens = <<>> THEN <<>> ELSE Head(tokens) \o Flatten(Tail(tokens))

NormalizerInit ==
    /\ StartIn(BaseWorld)
    /\ \E n \in 0..MaxTokens : \E tokens \in [1..n -> NameTokens] :
          garbage_name = Flatten(tokens)
    /\ clean = <<>>
    /\ FirstRun

\* name = cleanup_garbage_name(name)
CleanName ==
    /\ clean = <<>>
    /\ clean' = <<cleanup_garbage_name(garbage_name)>>
    /\ UNCHANGED <<settings, world, files, loaded, merged, new_list, doc, prompts, pc,
                   exits, garbage_name, rewrites>>

\* cleanup_garbage_name of a name that is already clean
CleanAgain ==
    /\ Len(clean) = 1
    /\ clean' = Append(clean, cleanup_garbage_name(clean[1]))
    /\ UNCHANGED <<settings, world, files, loaded, merged, new_list, doc, prompts, pc,
                   exits, garbage_name, rewrites>>

NormalizerNext ==
    \/ CleanName
    \/ CleanAgain

NormalizerSpec == NormalizerInit /\ [][NormalizerNext]_vars

(***************************************************************************)
(* The program run again and again on the same files: each run reads the   *)
(* ModsConfig.xml the run before it left, and the backups stay on disk.    *)
(***************************************************************************)
\* the most rewrites of ModsConfig.xml that are followed
MaxRewrites == 3

\* the last minute the clock reaches
MaxMinutes == 2

RewrittenLists == {<<"ModA", "ModB", "Core">>, <<"Core", "ModA">>, <<"ModB", "Core">>}

\* a run that has closed the rewritten ModsConfig.xml
Rewrote == pc = "saved"

\* the rewrites so far: what each replaced and the backup it copied to
Rewrites ==
    IF Rewrote THEN Append(before, [content |-> original_config, backup |-> backup_file])
    ELSE before

RewritesInit ==
    \E li \in RewrittenLists, a \in ModAFolders, b \in ModBFolders, k \in BOOLEAN :
        InitWorld(DataWorld(li, <<FolderOk("Core", NameCore)>>, a, b, k))

\* the process has ended and the program is started again, with the same
\* configuration and directories and with any switches
NextRun ==
    /\ ~running
    /\ Len(Rewrites) < MaxRewrites
    /\ before' = Rewrites
    /\ \E d \in BOOLEAN, r \in BOOLEAN : args' = [dry_run |-> d, reset_to_core |-> r]
    /\ original_config' = mods_config_file
    /\ backup_file' = NoPath
    /\ pc' = "download"
    /\ categories' = EmptyDocument
    /\ database' = EmptyDocument
    /\ mods_enabled_list' = <<>>
    /\ mod_data_workshop' = <<>>
    /\ mod_data_local' = <<>>
    /\ mod_data_full' = <<>>
    /\ mod_data_known' = <<>>
    /\ mod_data_unknown' = <<>>
    /\ mods_data_active' = <<>>
    /\ mods_unknown_active' = <<>>
    /\ new_list' = <<>>
    /\ doc' = <<>>
    /\ data' = Unbound
    /\ write_mods_config' = FALSE
    /\ dry_run_printed' = FALSE
    /\ running' = TRUE
    /\ exit_code' = 0
    /\ error' = ""
    /\ UNCHANGED <<dont_remove_unknown, disable_steam, cfg_disablesteam, github_configured,
                   categories_fetch, database_fetch, workshop_dir, local_dir, io_fault,
                   mods_config_file, backup_files, unknown_file, clock, normalizer>>

\* a minute passes
Tick ==
    /\ clock < MaxMinutes
    /\ clock' = clock + 1
    /\ UNCHANGED <<normalizer, before, settings, world, files, loaded, merged, new_list,
                   doc, prompts, pc, exits>>

RewritesNext ==
    \/ Next
    \/ NextRun
    \/ Tick

RewritesSpec == RewritesInit /\ [][RewritesNext]_vars

(***************************************************************************)
(* Properties of the runs.                                                 *)
(***************************************************************************)
StageOrder ==
    <<"download", "parse_config", "load_workshop", "load_local", "reconcile", "sort",
      "build", "report", "confirm", "write", "save_backup", "save_open",
      "save_prolog", "save_body", "saved">>

StageOf(label) == CHOOSE i \in 1..Len(StageOrder) : StageOrder[i] = label

\* main() has completed the step `label`
Past(label) == StageOf(pc) > StageOf(label)

\* the number of times an element occurs in a sequence
Count(seq, e) == Cardinality({i \in 1..Len(seq) : seq[i] = e})

\* the record of an id has a score
IsKnown(id) == Has(mod_data_full, id) /\ Get(mod_data_full, id).score # NoScore

Scores == {0, 1, 3}

\* C1: once the mods are sorted, the sorted known list is a permutation of
\* ActiveKnown, its scores never decrease, and the entries of one score are
\* in the order the EnabledList has them.
C1_StableSort ==
    Past("sort") =>
        /\ Len(new_list) = Len(mods_data_active)
        /\ \A i \in 1..Len(new_list) :
              Count(new_list, new_list[i]) = Count(mods_data_active, new_list[i])
        /\ \A i, j \in 1..Len(new_list) : i < j => new_list[i][2] <= new_list[j][2]
        /\ \A s \in Scores :
              Ids(SelectSeq(new_list, LAMBDA e : e[2] = s))
                 = SelectSeq(mods_enabled_list,
                             LAMBDA id : IsKnown(id) /\ Get(mod_data_full, id).score = s)

\* a sort that moved an entry, with two different mods of one score in it
C1_Witness ==
    /\ Past("sort")
    /\ new_list # mods_data_active
    /\ \E i, j \in 1..Len(new_list) :
          /\ i < j
          /\ new_list[i][1] # new_list[j][1]
          /\ new_list[i][2] = new_list[j][2]

\* a run without --reset-to-core
NormalRun == ~args.reset_to_core

\* main() has ended at the step `label`, or completed it
Done(label) == Past(label) \/ (pc = label /\ ~running)

\* a backup file holds the content ModsConfig.xml had when the run began
BackupOfOriginal == \E path \in DOMAIN backup_files : backup_files[path] = original_config

\* C2: the active-mod list a normal run builds always contains "Core".
C2_CoreInOutput ==
    NormalRun /\ Past("build") => \E i \in 1..Len(doc) : doc[i] = "Core"

\* C3: ModsConfig.xml is opened for writing only after the backup copy has
\* completed, a failed copy leaves the file as it was, a completed rewrite
\* has a backup with the content from before the run, and the file never
\* differs from that content without such a backup.
C3_BackupBeforeWrite ==
    /\ Past("save_backup") => BackupOfOriginal
    /\ (pc = "save_backup" /\ ~running) => mods_config_file = original_config
    /\ pc = "saved" => BackupOfOriginal
    /\ mods_config_file # original_config => BackupOfOriginal

\* a completed rewrite that changed the file
C3_Witness ==
    /\ pc = "saved"
    /\ ~running
    /\ mods_config_file # original_config
    /\ backup_files # <<>>

\* C4: with --dry-run ModsConfig.xml is never written and no backup is made.
C4_DryRunWritesNothing ==
    args.dry_run => mods_config_file = original_config /\ backup_files = <<>>

\* the report has an entry whose location names the mod id
Hinted(id) ==
    /\ unknown_file.written
    /\ \E name \in DOMAIN unknown_file.unknown :
          unknown_file.unknown[name][2] \in {LocalHint(id), WorkshopHint(id)}

\* the report has an entry under the display name of the record of the id
ReportedByName(id) ==
    /\ unknown_file.written
    /\ Get(mod_data_full, id).name \in DOMAIN unknown_file.unknown

\* C5 (as the code has it): in a normal run every active unknown id with a
\* discovered record is in the report under the display name of its record,
\* also when unknown mods are removed from the list; an active unknown id
\* without a discovered record is in no entry of the report.
C5_RecordsReported ==
    NormalRun /\ Past("report") =>
        \A i \in 1..Len(mods_unknown_active) :
            IF Has(mod_data_full, mods_unknown_active[i])
            THEN ReportedByName(mods_unknown_active[i])
            ELSE ~Hinted(mods_unknown_active[i])

\* unknown mods are removed, one active unknown id has a record and is
\* reported, another has none and is not
C5_Witness ==
    /\ NormalRun
    /\ Past("report")
    /\ ~dont_remove_unknown
    /\ \E i, j \in 1..Len(mods_unknown_active) :
          /\ Has(mod_data_full, mods_unknown_active[i])
          /\ Hinted(mods_unknown_active[i])
          /\ ~Has(mod_data_full, mods_unknown_active[j])

\* C5 (as stated): every active unknown id is in the unknown-mod report.
C5_EveryActiveUnknownReported ==
    NormalRun /\ Past("report") =>
        \A i \in 1..Len(mods_unknown_active) : Hinted(mods_unknown_active[i])

\* C6: after reconciliation ActiveKnown is the entries of the EnabledList
\* whose record has a score, with that score, ActiveUnknown is the other
\* entries, both in EnabledList order, and the lengths add up.
C6_Partition ==
    Past("reconcile") =>
        /\ \E i \in 1..Len(mods_enabled_list) : mods_enabled_list[i] = "Core"
        /\ Ids(mods_data_active) = SelectSeq(mods_enabled_list, IsKnown)
        /\ \A i \in 1..Len(mods_data_active) :
              mods_data_active[i][2] = Get(mod_data_full, mods_data_active[i][1]).score
        /\ mods_unknown_active = SelectSeq(mods_enabled_list, LAMBDA id : ~IsKnown(id))
        /\ Len(mods_data_active) + Len(mods_unknown_active) = Len(mods_enabled_list)

\* a list with a scored mod, a mod with a record without score and an
\* entry with no record at all
C6_Witness ==
    /\ Past("reconcile")
    /\ mods_data_active # <<>>
    /\ \E i, j \in 1..Len(mods_unknown_active) :
          /\ Has(mod_data_full, mods_unknown_active[i])
          /\ ~Has(mod_data_full, mods_unknown_active[j])

\* C7: the list a normal run builds is the sorted known ids, followed by the
\* active unknown ids in EnabledList order when unknown mods are kept.
C7_FinalSequence ==
    NormalRun /\ Past("build") =>
        doc = Ids(new_list) \o (IF dont_remove_unknown THEN mods_unknown_active ELSE <<>>)

\* the run wrote the new file, or printed the whole dry-run report
Succeeded == pc = "saved" \/ (args.dry_run /\ dry_run_printed)

\* the user answered "n" to the question about writing ModsConfig.xml
Declined == ~args.dry_run /\ Past("confirm") /\ ~write_mods_config

\* a download, a parse, a directory or a file operation failed
Failed == error \in {"fatal_error", "ParseError", "OSError"}

\* C8: a run that succeeded or was declined ends with exit code 0 and no
\* uncaught error, a run that failed ends with another exit code.
C8_ExitCodes ==
    ~running =>
        /\ (Succeeded \/ Declined) /\ ~Failed => exit_code = 0 /\ error = ""
        /\ Failed => exit_code # 0

\* C9: ModsConfig.xml always holds either its content from before the run or
\* the complete new document.
C9_WholeFile ==
    \/ mods_config_file = original_config
    \/ Past("build") /\ mods_config_file = ConfigDocument(doc)

\* the descriptor of the folder is missing, or malformed with a workshop
\* page that cannot be fetched or is the error page
Skipped(f, steam) ==
    \/ f.about = "none"
    \/ /\ f.about = "malformed"
       /\ steam
       /\ (f.page # "found" \/ Contains(f.title, SteamErrorTitle))

\* the descriptor is missing, or malformed with no fallback resolution: no
\* Steam installation to ask, a failed fetch, or the error page
Unresolvable(f, steam) ==
    \/ Skipped(f, steam)
    \/ f.about = "malformed" /\ ~steam

\* the folder has a display name, from its descriptor or the workshop page
Named(f, steam) ==
    \/ f.about = "ok"
    \/ /\ f.about = "malformed"
       /\ steam
       /\ f.page = "found"
       /\ ~Contains(f.title, SteamErrorTitle)

\* the database has the name under a category that has no score
Unscorable(name) ==
    /\ name \in DOMAIN DatabaseDocument.map
    /\ DatabaseDocument.map[name] \notin DOMAIN CategoriesDocument.map

\* the folder gives a record
Loadable(f, steam) ==
    /\ Named(f, steam)
    /\ ~Unscorable(cleanup_garbage_name(IF f.about = "ok" THEN f.text
                                        ELSE Replace(f.title, SteamPrefix, <<>>)))

\* the loader was called on the directory at the step `label` and has just
\* returned or ended the run (its result never changes afterwards)
Scanned(label, dir) ==
    /\ (pc = label /\ ~running) \/ StageOf(pc) = StageOf(label) + 1
    /\ dir.kind = "dir"
    /\ label = "load_workshop" => ~disable_steam /\ detect_steamworkshop_dir

\* the loader skipped the folders in `skip`, gave the others a record and
\* returned, for a directory with no other kind of folder
SkipsAndContinues(label, dir, records, Skip(_, _)) ==
    /\ \A k \in 1..Len(dir.folders) :
          Skip(dir.folders[k], detect_rimworld_steam)
             => ~Has(records, dir.folders[k].name)
    /\ (\A k \in 1..Len(dir.folders) :
           \/ Skip(dir.folders[k], detect_rimworld_steam)
           \/ Loadable(dir.folders[k], detect_rimworld_steam))
       => /\ Past(label)
          /\ \A k \in 1..Len(dir.folders) :
                Loadable(dir.folders[k], detect_rimworld_steam)
                   => Has(records, dir.folders[k].name)

\* the first folder that is neither skipped nor loaded is malformed, and
\* there is no Steam installation
MalformedWithoutSteam(dir) ==
    /\ ~detect_rimworld_steam
    /\ \E k \in 1..Len(dir.folders) :
          /\ dir.folders[k].about = "malformed"
          /\ \A j \in 1..(k - 1) :
                \/ Skipped(dir.folders[j], FALSE)
                \/ Loadable(dir.folders[j], FALSE)

WorkshopRequired == ~disable_steam /\ detect_steamworkshop_dir

\* ModsConfig.xml is missing or unparsable, or a directory the run scans
\* is missing
InputMissing ==
    \/ ~original_config.exists
    \/ ~ElementTreeParse(original_config).ok
    \/ local_dir.kind = "missing"
    \/ WorkshopRequired /\ workshop_dir.kind = "missing"

\* C11: with ModsConfig.xml missing or unparsable, or a scanned mod
\* directory missing, the run never gets past the loading of the mods, it
\* ends with a non-zero exit code, and no backup, no rewrite of
\* ModsConfig.xml and no unknown-mod report is made.
C11_MissingInputsAbort ==
    InputMissing =>
        /\ StageOf(pc) <= StageOf("load_local")
        /\ ~running => exit_code # 0
        /\ backup_files = <<>>
        /\ mods_config_file = original_config
        /\ unknown_file = NoReport

\* a run that ended at the missing local mod directory, after a
\* ModsConfig.xml that parsed
C11_Witness ==
    /\ ~running
    /\ pc = "load_local"
    /\ local_dir.kind = "missing"
    /\ ElementTreeParse(original_config).ok
    /\ exit_code = 1
    /\ error = "fatal_error"

\* the display name the loader reads for a folder that has one
DisplayName(f) == IF f.about = "ok" THEN f.text ELSE Replace(f.title, SteamPrefix, <<>>)

\* a folder of the directory has a name whose category has no score
HasUnscorable(dir) ==
    /\ dir.kind = "dir"
    /\ \E k \in 1..Len(dir.folders) :
          /\ Named(dir.folders[k], detect_rimworld_steam)
          /\ Unscorable(cleanup_garbage_name(DisplayName(dir.folders[k])))

\* a database document was not fetched, not decoded or is empty, or a
\* scanned folder has a name whose category has no score
ScoringFailure ==
    \/ categories_fetch # "ok"
    \/ database_fetch # "ok"
    \/ HasUnscorable(local_dir)
    \/ WorkshopRequired /\ HasUnscorable(workshop_dir)

\* C12: a run that got past the loading of the mods, or ended with exit
\* code 0, or made a backup or changed ModsConfig.xml, had both database
\* documents fetched, decoded and non-empty and no scanned mod whose name
\* resolves to a category without score.
C12_ScoringFailureFatal ==
    (\/ StageOf(pc) > StageOf("load_local")
     \/ ~running /\ exit_code = 0
     \/ backup_files # <<>>
     \/ mods_config_file # original_config)
        => ~ScoringFailure

\* a run ended by a local mod whose category has no score, with both
\* documents fetched
C12_Witness ==
    /\ ~running
    /\ pc = "load_local"
    /\ exit_code = 1
    /\ error = "fatal_error"
    /\ categories_fetch = "ok"
    /\ database_fetch = "ok"
    /\ HasUnscorable(local_dir)

\* the location hint the report gives a record, by the source of the record
HintBySource(m) == IF m.source = "L" THEN LocalHint(m.id) ELSE WorkshopHint(m.id)

\* the hint is the placeholder path of some mod id, no path of the file system
IsPlaceholder(hint) ==
    \E i \in 1..Len(mod_data_full) : hint = LocalHint(mod_data_full[i].id)

\* C13: in a written report the location hint of every unknown mod found in
\* the local directory is a placeholder path, and the location hint of
\* every unknown mod found in the workshop directory is the workshop URL of
\* its id, never empty and never a local path.
C13_HintsBySource ==
    Past("report") /\ unknown_file.written =>
        \A i \in 1..Len(mod_data_unknown) :
            /\ mod_data_unknown[i].name \in DOMAIN unknown_file.unknown
            /\ IF mod_data_unknown[i].source = "L"
               THEN IsPlaceholder(unknown_file.unknown[mod_data_unknown[i].name][2])
               ELSE unknown_file.unknown[mod_data_unknown[i].name][2]
                       = WorkshopHint(mod_data_unknown[i].id)

\* every entry of a written report has the hint of one unknown record of
\* its name, by the source of that record, and no entry has an empty hint
EntriesHintTheirRecord ==
    Past("report") /\ unknown_file.written =>
        \A name \in DOMAIN unknown_file.unknown :
            /\ unknown_file.unknown[name][2] # NoHint
            /\ \E i \in 1..Len(mod_data_unknown) :
                  /\ mod_data_unknown[i].name = name
                  /\ unknown_file.unknown[name][2] = HintBySource(mod_data_unknown[i])

\* C14: a name cleaned twice is the name cleaned once.
C14_Idempotent == Len(clean) = 2 => clean[2] = clean[1]

\* the active known mods of the example: ModA with score 3, ModB with
\* score 1, Core with score 0, in this order in the EnabledList
ExampleActive == <<<<"ModA", 3>>, <<"ModB", 1>>, <<"Core", 0>>>>

\* C15 (as the code has it): for the EnabledList [ModA, ModB, Core] with the
\* scores 3, 1 and 0 the sorted known list is [Core, ModB, ModA].
C15_ExampleAscending ==
    Past("sort") /\ mods_data_active = ExampleActive
        => Ids(new_list) = <<"Core", "ModB", "ModA">>

\* the example has been sorted
C15_Witness ==
    /\ Past("sort")
    /\ mods_enabled_list = <<"ModA", "ModB", "Core">>
    /\ mods_data_active = ExampleActive
    /\ new_list = <<<<"Core", 0>>, <<"ModB", 1>>, <<"ModA", 3>>>>

\* C15 (as stated): for the EnabledList [ModA, ModB, Core] with the scores
\* 3, 1 and 0 the sorted known list is [ModB, ModA, Core].
C15_ExampleCoreLast ==
    Past("sort") /\ mods_data_active = ExampleActive
        => Ids(new_list) = <<"ModB", "ModA", "Core">>

\* C16: the merged map has the ids of both loaders, each once; an id the
\* workshop loader found has the workshop record, an id only the local
\* loader found has the local record.
C16_WorkshopOverLocal ==
    Past("reconcile") =>
        /\ Keys(mod_data_full) = Keys(mod_data_local) \cup Keys(mod_data_workshop)
        /\ Len(mod_data_full) = Cardinality(Keys(mod_data_full))
        /\ \A id \in Keys(mod_data_workshop) :
              Get(mod_data_full, id) = Get(mod_data_workshop, id)
        /\ \A id \in Keys(mod_data_local) \ Keys(mod_data_workshop) :
              Get(mod_data_full, id) = Get(mod_data_local, id)

\* both loaders found an id, with different records, and each found an id
\* the other did not
C16_Witness ==
    /\ Past("reconcile")
    /\ \E id \in Keys(mod_data_local) \cap Keys(mod_data_workshop) :
          /\ Get(mod_data_local, id) # Get(mod_data_workshop, id)
          /\ Get(mod_data_full, id).source = "W"
    /\ Keys(mod_data_local) \ Keys(mod_data_workshop) # {}
    /\ Keys(mod_data_workshop) \ Keys(mod_data_local) # {}

\* the user has answered the last question of a run without --dry-run: the
\* reset question with --reset-to-core, the write question otherwise
Answered(answer) ==
    /\ ~args.dry_run
    /\ IF args.reset_to_core THEN Past("build") ELSE Past("confirm")
    /\ data = answer

\* C17: without --dry-run, ModsConfig.xml is changed or backed up only after
\* the answer "y" to the last question; after "n" the file is as it was,
\* there is no backup and the run ends with exit code 0; after "y" a run
\* without a failing file operation ends only when the file is the new
\* document, which with --reset-to-core lists Core alone.
C17_WrittenIffConfirmed ==
    ~args.dry_run =>
        /\ (mods_config_file # original_config \/ backup_files # <<>>) => Answered("y")
        /\ Answered("n") =>
              /\ mods_config_file = original_config
              /\ backup_files = <<>>
              /\ ~running => exit_code = 0 /\ pc = "write"
        /\ (Answered("y") /\ io_fault = "none" /\ ~running) =>
              /\ pc = "saved"
              /\ mods_config_file = ConfigDocument(doc)
              /\ args.reset_to_core => ElementTreeParse(mods_config_file).li = <<"Core">>

\* a reset to Core that was confirmed and written over a longer list
C17_Witness ==
    /\ ~args.dry_run
    /\ args.reset_to_core
    /\ Answered("y")
    /\ ~running
    /\ pc = "saved"
    /\ ElementTreeParse(mods_config_file).li = <<"Core">>
    /\ Len(ElementTreeParse(original_config).li) > 1

\* C18: every id of the active-mod list the run builds is an entry of the
\* EnabledList, and occurs in it at least as often.
C18_NoNewId ==
    Past("build") =>
        \A i \in 1..Len(doc) :
            /\ \E j \in 1..Len(mods_enabled_list) : mods_enabled_list[j] = doc[i]
            /\ Count(doc, doc[i]) <= Count(mods_enabled_list, doc[i])

\* every id of the list is an entry of the EnabledList, or is "None" where
\* the EnabledList has an entry without text
NoNewIdButNone ==
    Past("build") =>
        \A i \in 1..Len(doc) :
            \E j \in 1..Len(mods_enabled_list) : str(mods_enabled_list[j]) = doc[i]

\* whether some backup file holds the content
BackedUp(content) == \E path \in DOMAIN backup_files : backup_files[path] = content

\* the backups so far, with the one of a run that has not yet rewritten
BackupsTaken ==
    IF backup_file # NoPath /\ ~Rewrote
    THEN Append(before, [content |-> original_config, backup |-> backup_file])
    ELSE Rewrites

\* C19: after any sequence of successful rewrites, the content the file had
\* before each of them is held by some backup file.
C19_EveryContentKept ==
    \A i \in 1..Len(Rewrites) : BackedUp(Rewrites[i].content)

\* rewrites whose backups have different paths, that is different minutes,
\* lose nothing
DifferentMinutesKeep ==
    (\A i, j \in 1..Len(BackupsTaken) :
        i # j => BackupsTaken[i].backup # BackupsTaken[j].backup)
        => C19_EveryContentKept

\* a backup, once it is complete, is not written again
BackupsNeverOverwritten ==
    [][\A path \in DOMAIN backup_files :
          path \in DOMAIN backup_files' /\ backup_files'[path] = backup_files[path]]_vars

\* two rewrites in one minute: the second differs from the first
TwoRewritesInOneMinute ==
    /\ Len(Rewrites) = 2
    /\ Rewrites[1].backup = Rewrites[2].backup
    /\ Rewrites[1].content # Rewrites[2].content
    /\ ~BackedUp(Rewrites[1].content)

====
